---- MODULE Spec2Model ----
(***************************************************************************)
(* rsnake3d (src/main.rs): a Bevy ECS snake.  The world is a set of        *)
(* entities with components (Position, SnakeHead, SnakeSegment,            *)
(* LastSnakeSegment, Food), a deferred command queue, the EatEvent double  *)
(* buffer with one cursor per EventReader, and the position of the frame   *)
(* in the main schedule.  One action per system.                           *)
(***************************************************************************)
EXTENDS Integers, Sequences, FiniteSets, TLC

VARIABLES
    position,          \* entity -> IVec3, the Position component
    snakeHead,         \* entity -> Direction, the SnakeHead component
    snakeSegment,      \* entities tagged SnakeSegment
    lastSnakeSegment,  \* entity -> Option<Position>, the LastSnakeSegment component
    food,              \* entities tagged Food
    segmentTable,      \* entities of the (SnakeSegment, no head, no last) archetype, in table order
    nextEntity,        \* next entity id handed out by commands.spawn
    commands,          \* deferred commands not yet applied
    event_count,       \* Events<EatEvent>: events sent so far
    events_a,          \* Events<EatEvent>: size of the older buffer
    events_b,          \* Events<EatEvent>: size of the newer buffer
    growthReader,      \* snake_growth's EventReader cursor
    spawnerReader,     \* food_spawner's EventReader cursor
    pc,                \* where the frame stands in the main schedule
    fixedSet,          \* on_fixed_timer's condition for this frame: FixedSet runs
    timer,             \* on_fixed_timer's repeating timer, in fixed periods elapsed
    moved,             \* snake_movement ran this frame
    ate,               \* eat_food ran this frame
    candidate,         \* food_spawner's loop variable pos (None outside the loop)
    grown,             \* history: growths queued by snake_growth
    spawned,           \* history: foods placed by food_spawner
    eatLog,            \* history: the food entity of every EatEvent sent
    convIn,            \* a value handed to one of Direction's two conversions
    convOut,           \* what the conversion returned
    convBack           \* what the opposite conversion returned for convOut

vars == <<position, snakeHead, snakeSegment, lastSnakeSegment, food, segmentTable,
          nextEntity, commands, event_count, events_a, events_b, growthReader,
          spawnerReader, pc, fixedSet, timer, moved, ate, candidate, grown, spawned,
          eatLog, convIn, convOut, convBack>>

world == <<position, snakeHead, snakeSegment, lastSnakeSegment, food, segmentTable>>

events == <<event_count, events_a, events_b>>

clock == <<fixedSet, timer>>

conv == <<convIn, convOut, convBack>>

----------------------------------------------------------------------------
(* Bounds of the model and constants of the program *)

MaxHeadY == 8

\* vectors handed to Direction::from have their coordinates in -MaxCoord..MaxCoord
MaxCoord == 2

SpawnMin == -5

\* variant: a range that reaches two cells further up
SpawnMaxWide == 5 + 2

SpawnMax == 5

\* variant: a period shorter than one fixed period, so that the condition holds
\* in every frame
TimerMillisShort == 1300 \div 100

\* Duration::from_millis(1300), the period of on_fixed_timer
TimerMillis == 1300

\* on_fixed_timer advances its timer by FixedTime's period, 1/60 s by default,
\* each time the condition is evaluated: once per run of the main schedule
FixedHz == 60

\* so FixedSet runs on every 78th frame
FramesPerTick == (TimerMillis * FixedHz) \div 1000

----------------------------------------------------------------------------
(* Values *)

None == <<>>

IVec3(x, y, z) == <<x, y, z>>

Add(a, b) == <<a[1] + b[1], a[2] + b[2], a[3] + b[3]>>

Direction == {"Up", "Down", "Left", "Right", "Forward", "Backward"}

\* variant: the two vertical unit vectors exchanged
DirectionToIVec3Flipped(d) ==
    CASE d = "Up"       -> IVec3(0, -1, 0)
      [] d = "Down"     -> IVec3(0, 1, 0)
      [] d = "Right"    -> IVec3(1, 0, 0)
      [] d = "Left"     -> IVec3(-1, 0, 0)
      [] d = "Forward"  -> IVec3(0, 0, 1)
      [] d = "Backward" -> IVec3(0, 0, -1)

DirectionToIVec3(d) ==
    CASE d = "Up"       -> IVec3(0, 1, 0)
      [] d = "Down"     -> IVec3(0, -1, 0)
      [] d = "Right"    -> IVec3(1, 0, 0)
      [] d = "Left"     -> IVec3(-1, 0, 0)
      [] d = "Forward"  -> IVec3(0, 0, 1)
      [] d = "Backward" -> IVec3(0, 0, -1)

\* the outcome of panic!("Invalid direction")
InvalidDirection == "Invalid direction"

IVec3ToDirection(value) ==
    CASE value = IVec3(0, 1, 0)  -> "Up"
      [] value = IVec3(0, -1, 0) -> "Down"
      [] value = IVec3(1, 0, 0)  -> "Right"
      [] value = IVec3(-1, 0, 0) -> "Left"
      [] value = IVec3(0, 0, 1)  -> "Forward"
      [] value = IVec3(0, 0, -1) -> "Backward"
      [] OTHER                   -> InvalidDirection

Single(S) == Cardinality(S) = 1

TheOne(S) == CHOOSE e \in S : TRUE

Without(f, e) == [x \in (DOMAIN f) \ {e} |-> f[x]]

----------------------------------------------------------------------------
(* The chain as the systems see it: the head, the middle segments in the   *)
(* iteration order of snake_query, the designated last segment.            *)

HeadEntity == TheOne(DOMAIN snakeHead)

LastEntity == TheOne(DOMAIN lastSnakeSegment)

ChainEntities == <<HeadEntity>> \o segmentTable \o <<LastEntity>>

Chain == [i \in 1..Len(ChainEntities) |-> position[ChainEntities[i]]]

SnakePositions == {position[e] : e \in snakeSegment}

----------------------------------------------------------------------------
(* Deferred commands *)

Despawn(ent) == [op |-> "despawn", ent |-> ent]

RemoveLast(ent) == [op |-> "remove_last", ent |-> ent]

SpawnSegment(ent, pos) == [op |-> "spawn_segment", ent |-> ent, pos |-> pos]

SpawnFood(ent, pos) == [op |-> "spawn_food", ent |-> ent, pos |-> pos]

ApplyOne(w, c) ==
    CASE c.op = "despawn" ->
            [w EXCEPT !.position = Without(@, c.ent),
                      !.snakeHead = Without(@, c.ent),
                      !.lastSnakeSegment = Without(@, c.ent),
                      !.snakeSegment = @ \ {c.ent},
                      !.food = @ \ {c.ent},
                      !.segmentTable = SelectSeq(@, LAMBDA e : e # c.ent)]
      [] c.op = "remove_last" ->
            IF c.ent \in DOMAIN w.lastSnakeSegment
            THEN [w EXCEPT !.lastSnakeSegment = Without(@, c.ent),
                           !.segmentTable =
                               IF c.ent \in w.snakeSegment /\ c.ent \notin DOMAIN w.snakeHead
                               THEN Append(@, c.ent) ELSE @]
            ELSE w
      [] c.op = "spawn_segment" ->
            [w EXCEPT !.position = (c.ent :> c.pos) @@ @,
                      !.snakeSegment = @ \cup {c.ent},
                      !.lastSnakeSegment = (c.ent :> None) @@ @]
      [] c.op = "spawn_food" ->
            [w EXCEPT !.position = (c.ent :> c.pos) @@ @,
                      !.food = @ \cup {c.ent}]

RECURSIVE ApplyAll(_, _)
ApplyAll(w, cs) ==
    IF cs = <<>> THEN w ELSE ApplyAll(ApplyOne(w, Head(cs)), Tail(cs))

World == [position |-> position, snakeHead |-> snakeHead,
          snakeSegment |-> snakeSegment, lastSnakeSegment |-> lastSnakeSegment,
          food |-> food, segmentTable |-> segmentTable]

ApplyCommands ==
    LET w == ApplyAll(World, commands) IN
    /\ position' = w.position
    /\ snakeHead' = w.snakeHead
    /\ snakeSegment' = w.snakeSegment
    /\ lastSnakeSegment' = w.lastSnakeSegment
    /\ food' = w.food
    /\ segmentTable' = w.segmentTable
    /\ commands' = <<>>

----------------------------------------------------------------------------
(* Events<EatEvent> and EventReader *)

Max(a, b) == IF a >= b THEN a ELSE b

\* a variant that looks at the oldest unread event without moving the cursor
ReaderPeek(cursor) ==
    LET first == Max(cursor, event_count - (events_a + events_b)) IN
    [got |-> first < event_count, cursor |-> first]

\* eat_reader.iter().next(): the oldest event still buffered and not yet read
\* by this reader, if any; the cursor moves past it.
ReaderNext(cursor) ==
    LET first == Max(cursor, event_count - (events_a + events_b)) IN
    IF first < event_count
    THEN [got |-> TRUE, cursor |-> first + 1]
    ELSE [got |-> FALSE, cursor |-> first]

----------------------------------------------------------------------------
(* Startup: the world after setup_scene's commands are applied *)

SetupScene ==
    /\ position = (1 :> IVec3(0, 0, 0)) @@ (2 :> IVec3(0, -1, 0)) @@ (3 :> IVec3(0, 1, 0))
    /\ snakeHead = (1 :> "Up")
    /\ snakeSegment = {1, 2}
    /\ lastSnakeSegment = (2 :> None)
    /\ food = {3}
    /\ segmentTable = <<>>
    /\ nextEntity = 4
    /\ commands = <<>>
    /\ event_count = 0
    /\ events_a = 0
    /\ events_b = 0
    /\ growthReader = 0
    /\ spawnerReader = 0
    /\ pc = "First"
    /\ fixedSet = FALSE
    /\ timer = 1
    /\ moved = FALSE
    /\ ate = FALSE
    /\ candidate = None
    /\ grown = 0
    /\ spawned = 0
    /\ eatLog = <<>>

\* a value of either type, or no value
DirectionValue(d) == [type |-> "Direction", dir |-> d, vec |-> None]

IVec3Value(v) == [type |-> "IVec3", dir |-> "", vec |-> v]

Panicked == [type |-> "panic", dir |-> InvalidDirection, vec |-> None]

NoValue == [type |-> "", dir |-> "", vec |-> None]

Init ==
    /\ SetupScene
    /\ convIn = NoValue
    /\ convOut = NoValue
    /\ convBack = NoValue

----------------------------------------------------------------------------
(* snake_movement *)

RECURSIVE MoveSegments(_, _, _)
\* the for loop over snake_query: each segment takes old_position and hands
\* its own previous position on
MoveSegments(tab, posf, old_position) ==
    IF tab = <<>>
    THEN [position |-> posf, old_position |-> old_position]
    ELSE MoveSegments(Tail(tab), [posf EXCEPT ![Head(tab)] = old_position],
                      posf[Head(tab)])

\* a variant that saves old_position only after the head has moved
MovedPositionsLateSave(posf, h, l, tab, d) ==
    LET headMoved == [posf EXCEPT ![h] = Add(@, DirectionToIVec3(d))]
        r == MoveSegments(tab, headMoved, headMoved[h])
    IN [r.position EXCEPT ![l] = r.old_position]

MovedPositions(posf, h, l, tab, d) ==
    LET old == posf[h]
        headMoved == [posf EXCEPT ![h] = Add(@, DirectionToIVec3(d))]
        r == MoveSegments(tab, headMoved, old)
    IN [r.position EXCEPT ![l] = r.old_position]

\* variant: the last segment's position is saved after it has been moved
SavedLastPositionAfterMove(posf, h, l, tab, d) == MovedPositions(posf, h, l, tab, d)[l]

\* last_segment.0 = Some(*last_position), before anything is moved
SavedLastPosition(posf, h, l, tab, d) == posf[l]

HeadQuery == {e \in DOMAIN snakeHead : e \in DOMAIN position /\ e \notin DOMAIN lastSnakeSegment}

LastQuery == {e \in DOMAIN lastSnakeSegment : e \in DOMAIN position /\ e \notin DOMAIN snakeHead}

SnakeMovement ==
    /\ fixedSet /\ ~moved /\ pc # "SpawnLoop"
    /\ moved' = TRUE
    /\ IF Single(HeadQuery) /\ Single(LastQuery)
       THEN LET h == TheOne(HeadQuery)
                l == TheOne(LastQuery)
            IN /\ lastSnakeSegment' =
                      [lastSnakeSegment EXCEPT
                          ![l] = SavedLastPosition(position, h, l, segmentTable, snakeHead[h])]
               /\ position' = MovedPositions(position, h, l, segmentTable, snakeHead[h])
       ELSE UNCHANGED <<lastSnakeSegment, position>>
    /\ UNCHANGED conv
    /\ UNCHANGED <<snakeHead, snakeSegment, food, segmentTable, nextEntity, commands,
                   events, growthReader, spawnerReader, pc, clock, ate, candidate,
                   grown, spawned, eatLog>>

----------------------------------------------------------------------------
(* eat_food *)

\* a variant that compares heights with <= instead of the positions with ==
FoodEatenAtOrBelow(food_pos, head_pos) == food_pos[2] <= head_pos[2]

\* variant: the food is compared with the cell the head has just left
FoodEatenAtPreviousCell(food_pos, head_pos) == food_pos = Add(head_pos, IVec3(0, -1, 0))

FoodEaten(food_pos, head_pos) == food_pos = head_pos

EatFood ==
    /\ fixedSet /\ moved /\ ~ate /\ pc # "SpawnLoop"
    /\ ate' = TRUE
    /\ IF /\ Single(DOMAIN snakeHead)
          /\ Single(food)
          /\ FoodEaten(position[TheOne(food)], position[HeadEntity])
       THEN /\ commands' = Append(commands, Despawn(TheOne(food)))
            /\ event_count' = event_count + 1
            /\ events_b' = events_b + 1
            /\ eatLog' = Append(eatLog, TheOne(food))
       ELSE UNCHANGED <<commands, event_count, events_b, eatLog>>
    /\ UNCHANGED conv
    /\ UNCHANGED <<world, nextEntity, events_a, growthReader, spawnerReader, pc,
                   clock, moved, candidate, grown, spawned>>

----------------------------------------------------------------------------
(* snake_growth *)

\* a variant that spawns the new segment where the last segment stands now
GrowthCommandsAtTail(last_segment_ent, last_segment_pos, new_ent) ==
    <<RemoveLast(last_segment_ent), SpawnSegment(new_ent, position[last_segment_ent])>>

\* a variant that forgets to take LastSnakeSegment off the old tail
GrowthCommandsKeepLast(last_segment_ent, last_segment_pos, new_ent) ==
    <<SpawnSegment(new_ent, last_segment_pos)>>

GrowthCommands(last_segment_ent, last_segment_pos, new_ent) ==
    <<RemoveLast(last_segment_ent), SpawnSegment(new_ent, last_segment_pos)>>

SnakeGrowth ==
    /\ pc = "Growth"
    /\ pc' = "Spawner"
    /\ IF Single(DOMAIN lastSnakeSegment) /\ lastSnakeSegment[LastEntity] # None
       THEN LET r == ReaderNext(growthReader) IN
            /\ growthReader' = r.cursor
            /\ IF r.got
               THEN /\ commands' = commands \o
                           GrowthCommands(LastEntity, lastSnakeSegment[LastEntity], nextEntity)
                    /\ nextEntity' = nextEntity + 1
                    /\ grown' = grown + 1
               ELSE UNCHANGED <<commands, nextEntity, grown>>
       ELSE UNCHANGED <<growthReader, commands, nextEntity, grown>>
    /\ UNCHANGED conv
    /\ UNCHANGED <<world, events, spawnerReader, clock, moved, ate, candidate,
                   spawned, eatLog>>

----------------------------------------------------------------------------
(* food_spawner: the event check, then the rejection loop one draw at a time *)

\* a variant that compares the candidate with the head only
IsFreeOfHead(pos) == position[HeadEntity] # pos

IsFree(pos) == \A e \in snakeSegment : position[e] # pos

FoodSpawner ==
    /\ pc = "Spawner"
    /\ LET r == ReaderNext(spawnerReader) IN
       /\ spawnerReader' = r.cursor
       /\ pc' = IF r.got THEN "SpawnLoop" ELSE "UpdateFlush"
    /\ UNCHANGED conv
    /\ UNCHANGED <<world, nextEntity, commands, events, growthReader, clock, moved,
                   ate, candidate, grown, spawned, eatLog>>

FoodSpawnerDraw ==
    /\ pc = "SpawnLoop"
    /\ \E y \in SpawnMin..SpawnMax :
          LET pos == IVec3(0, y, 0) IN
          IF IsFree(pos)
          THEN /\ commands' = Append(commands, SpawnFood(nextEntity, pos))
               /\ nextEntity' = nextEntity + 1
               /\ spawned' = spawned + 1
               /\ candidate' = None
               /\ pc' = "UpdateFlush"
          ELSE /\ candidate' = pos
               /\ UNCHANGED <<commands, nextEntity, spawned, pc>>
    /\ UNCHANGED conv
    /\ UNCHANGED <<world, events, growthReader, spawnerReader, clock, moved, ate,
                   grown, eatLog>>

----------------------------------------------------------------------------
(* The main schedule: Events::update_system in First, the flushes before   *)
(* and after Update, the end of the frame.                                 *)

EventsUpdate ==
    /\ pc = "First"
    /\ pc' = "PreUpdate"
    /\ events_a' = events_b
    /\ events_b' = 0
    /\ UNCHANGED conv
    /\ UNCHANGED <<world, nextEntity, commands, event_count, growthReader,
                   spawnerReader, clock, moved, ate, candidate, grown, spawned, eatLog>>

ApplyBuffers ==
    /\ pc \in {"PreUpdate", "UpdateFlush"}
    /\ pc' = IF pc = "PreUpdate" THEN "Growth" ELSE "Last"
    /\ ApplyCommands
    /\ UNCHANGED conv
    /\ UNCHANGED <<nextEntity, events, growthReader, spawnerReader, clock, moved,
                   ate, candidate, grown, spawned, eatLog>>

HeadY == position[HeadEntity][2]

EndFrame ==
    /\ pc = "Last"
    /\ fixedSet => (moved /\ ate)
    /\ pc' = "First"
    /\ ApplyCommands
    /\ timer' = IF timer + 1 >= FramesPerTick THEN 0 ELSE timer + 1
    /\ fixedSet' = (timer + 1 >= FramesPerTick /\ HeadY < MaxHeadY)
    /\ moved' = FALSE
    /\ ate' = FALSE
    /\ UNCHANGED conv
    /\ UNCHANGED <<nextEntity, events, growthReader, spawnerReader, candidate, grown,
                   spawned, eatLog>>

Next ==
    \/ EventsUpdate
    \/ ApplyBuffers
    \/ SnakeGrowth
    \/ FoodSpawner
    \/ FoodSpawnerDraw
    \/ SnakeMovement
    \/ EatFood
    \/ EndFrame

Spec == Init /\ [][Next]_vars

\* the random draws are fair: while a draw that ends food_spawner's loop stays
\* possible, one is eventually made
FairSpec == Spec /\ WF_vars(FoodSpawnerDraw /\ pc' # "SpawnLoop")

----------------------------------------------------------------------------
(* food_spawner on its own: it is about to react to an EatEvent, the snake  *)
(* a straight chain of n segments heading Up with its head at (0, hy, 0);   *)
(* snake_growth has already queued its commands for the same event.         *)

SpawnCells == SpawnMax - SpawnMin + 1

SpawnInit ==
    \E n \in 2..SpawnCells, hy \in 1..MaxHeadY :
        /\ position = [e \in 1..n |-> IVec3(0, hy - (e - 1), 0)]
        /\ snakeHead = (1 :> "Up")
        /\ snakeSegment = 1..n
        /\ lastSnakeSegment = (n :> IVec3(0, hy - n, 0))
        /\ food = {}
        /\ segmentTable = [i \in 1..(n - 2) |-> i + 1]
        /\ nextEntity = n + 3
        /\ commands = GrowthCommands(n, IVec3(0, hy - n, 0), n + 2)
        /\ event_count = 1
        /\ events_a = 0
        /\ events_b = 1
        /\ growthReader = 1
        /\ spawnerReader = 0
        /\ pc = "Spawner"
        /\ fixedSet = TRUE
        /\ timer = 0
        /\ moved = TRUE
        /\ ate = TRUE
        /\ candidate = None
        /\ grown = 1
        /\ spawned = 0
        /\ eatLog = <<n + 1>>
        /\ convIn = NoValue
        /\ convOut = NoValue
        /\ convBack = NoValue

SpawnNext == FoodSpawner \/ FoodSpawnerDraw

SpawnSpec == SpawnInit /\ [][SpawnNext]_vars

\* the loop keeps drawing for as long as it has not broken out
FairSpawnSpec == SpawnSpec /\ WF_vars(FoodSpawnerDraw)

----------------------------------------------------------------------------
(* snake_growth on its own: it is about to run on a straight chain of n     *)
(* segments heading Up with its head at (0, hy, 0), with or without an      *)
(* EatEvent it has not read, and with or without a pending last position.   *)

GrowthInit ==
    \E n \in 2..SpawnCells, hy \in 1..MaxHeadY, unread \in 0..1, captured \in BOOLEAN :
      LET pending == IF captured THEN IVec3(0, hy - n, 0) ELSE None IN
        /\ position = [e \in 1..n |-> IVec3(0, hy - (e - 1), 0)] @@
                         (IF unread = 1 THEN <<>> ELSE (n + 1) :> IVec3(0, hy + 1, 0))
        /\ snakeHead = (1 :> "Up")
        /\ snakeSegment = 1..n
        /\ lastSnakeSegment = (n :> pending)
        /\ food = IF unread = 1 THEN {} ELSE {n + 1}
        /\ segmentTable = [i \in 1..(n - 2) |-> i + 1]
        /\ nextEntity = n + 2
        /\ commands = <<>>
        /\ event_count = unread
        /\ events_a = 0
        /\ events_b = unread
        /\ growthReader = 0
        /\ spawnerReader = 0
        /\ pc = "Growth"
        /\ fixedSet = FALSE
        /\ timer = 1
        /\ moved = FALSE
        /\ ate = FALSE
        /\ candidate = None
        /\ grown = 0
        /\ spawned = 0
        /\ eatLog = IF unread = 1 THEN <<n + 1>> ELSE <<>>
        /\ convIn = NoValue
        /\ convOut = NoValue
        /\ convBack = NoValue

GrowthNext == SnakeGrowth

GrowthSpec == GrowthInit /\ [][GrowthNext]_vars

----------------------------------------------------------------------------
(* Direction's conversions on their own: a Direction or a vector goes       *)
(* through one conversion and the result through the opposite one.          *)

Vectors == {IVec3(x, y, z) : x, y, z \in -MaxCoord..MaxCoord}

DirInit ==
    /\ SetupScene
    /\ convIn \in {DirectionValue(d) : d \in Direction} \cup {IVec3Value(v) : v \in Vectors}
    /\ convOut = NoValue
    /\ convBack = NoValue

\* the result of Direction::from as a value
FromIVec3(v) ==
    IF IVec3ToDirection(v) = InvalidDirection THEN Panicked
    ELSE DirectionValue(IVec3ToDirection(v))

\* IVec3::from(direction)
IntoIVec3 ==
    /\ convIn.type = "Direction" /\ convOut = NoValue
    /\ convOut' = IVec3Value(DirectionToIVec3(convIn.dir))
    /\ UNCHANGED <<world, nextEntity, commands, events, growthReader, spawnerReader, pc,
                   clock, moved, ate, candidate, grown, spawned, eatLog, convIn, convBack>>

\* Direction::from(vector)
IntoDirection ==
    /\ convIn.type = "IVec3" /\ convOut = NoValue
    /\ convOut' = FromIVec3(convIn.vec)
    /\ UNCHANGED <<world, nextEntity, commands, events, growthReader, spawnerReader, pc,
                   clock, moved, ate, candidate, grown, spawned, eatLog, convIn, convBack>>

\* Direction::from(IVec3::from(direction))
BackIntoDirection ==
    /\ convOut.type = "IVec3" /\ convBack = NoValue
    /\ convBack' = FromIVec3(convOut.vec)
    /\ UNCHANGED <<world, nextEntity, commands, events, growthReader, spawnerReader, pc,
                   clock, moved, ate, candidate, grown, spawned, eatLog, convIn, convOut>>

\* IVec3::from(Direction::from(vector))
BackIntoIVec3 ==
    /\ convOut.type = "Direction" /\ convBack = NoValue
    /\ convBack' = IVec3Value(DirectionToIVec3(convOut.dir))
    /\ UNCHANGED <<world, nextEntity, commands, events, growthReader, spawnerReader, pc,
                   clock, moved, ate, candidate, grown, spawned, eatLog, convIn, convOut>>

DirNext == IntoIVec3 \/ IntoDirection \/ BackIntoDirection \/ BackIntoIVec3

DirSpec == DirInit /\ [][DirNext]_vars

----------------------------------------------------------------------------
(* Properties *)

\* the step is a run of snake_movement
MovementStep == ~moved /\ moved'

\* C1: shift invariant of snake_movement.  With P the chain before a movement
\* step (head first, middle segments in chain order, designated tail last) and d
\* the head's direction, after the step P'[1] = P[1] + delta(d) and P'[i] = P[i-1]
\* for every other i: one synchronous shift of the pre-tick snapshot.
C1_ShiftInvariant ==
    [][MovementStep =>
          /\ Len(Chain') = Len(Chain)
          /\ Chain'[1] = Add(Chain[1], DirectionToIVec3(snakeHead[HeadEntity]))
          /\ \A i \in 2..Len(Chain) : Chain'[i] = Chain[i - 1]]_vars

\* snake_movement has just run on a chain of five segments
C1_Witness ==
    /\ moved /\ ~ate
    /\ Len(Chain) = 5
    /\ lastSnakeSegment[LastEntity] # None

\* the step is a reaction of snake_growth to an EatEvent
GrowthReaction == grown' = grown + 1

\* the step applies the deferred commands
FlushStep == commands # <<>> /\ commands' = <<>>

\* the segment spawns queued by snake_growth and not yet applied
QueuedSegments == SelectSeq(commands, LAMBDA c : c.op = "spawn_segment")

\* C2: growth preserves the prefix.  When snake_growth reacts to an EatEvent it
\* moves no segment and queues exactly one new segment at the pending last
\* position it reads from the designated tail; when that command is applied
\* the existing segments keep their positions, the new segment is appended at
\* the tail end at that position, which is still the tail's pending last
\* position, and the chain is one longer.
C2_GrowthPreservesPrefix ==
    [][/\ GrowthReaction =>
            /\ lastSnakeSegment[LastEntity] # None
            /\ Chain' = Chain
            /\ QueuedSegments = <<>>
            /\ QueuedSegments' = <<SpawnSegment(nextEntity, lastSnakeSegment[LastEntity])>>
       /\ (FlushStep /\ QueuedSegments # <<>>) =>
            /\ Len(QueuedSegments) = 1
            /\ Len(Chain') = Len(Chain) + 1
            /\ \A i \in 1..Len(Chain) : Chain'[i] = Chain[i]
            /\ Chain'[Len(Chain) + 1] = QueuedSegments[1].pos
            /\ QueuedSegments[1].pos = lastSnakeSegment[LastEntity]
            /\ ChainEntities' = Append(ChainEntities, QueuedSegments[1].ent)]_vars

\* a growth has just been applied: the chain has one segment per growth and
\* the new tail has not moved yet
C2_Witness ==
    /\ grown >= 1
    /\ QueuedSegments = <<>>
    /\ Len(Chain) = 2 + grown
    /\ lastSnakeSegment[LastEntity] = None

\* the head has reached food f in this tick and f is not removed yet
BeingEaten(f) ==
    \/ \E i \in 1..Len(commands) : commands[i] = Despawn(f)
    \/ moved /\ ~ate /\ position[f] = position[HeadEntity]

\* C3: food/occupancy invariant.  A food entity that is present, and is not in
\* the instant between the head reaching it and its removal, stands on no cell
\* of the snake (head, middle segments, tail, a segment appended by growth).
C3_FoodOffSnake ==
    \A f \in food : ~BeingEaten(f) => position[f] \notin SnakePositions

\* the step is food_spawner placing a food
FoodPlaced == spawned' = spawned + 1

\* the cells food_spawner draws from: x = 0, z = 0, y in -5..=5
Bounds == {IVec3(0, y, 0) : y \in SpawnMin..SpawnMax}

\* C4: spawner exclusion.  Whenever food_spawner places food, the position it
\* queues is inside the bounds and is the position of no segment it reads.
C4_SpawnerExclusion ==
    [][FoodPlaced =>
          LET c == commands'[Len(commands')] IN
          /\ Len(commands') = Len(commands) + 1
          /\ c.op = "spawn_food"
          /\ c.pos \in Bounds
          /\ c.pos \notin SnakePositions]_vars

\* food_spawner has just placed a food while at least three cells of the
\* bounds were taken by the snake
C4_Witness ==
    /\ pc = "UpdateFlush"
    /\ commands # <<>>
    /\ commands[Len(commands)].op = "spawn_food"
    /\ Cardinality(SnakePositions \cap Bounds) >= 3

\* every cell of the bounds is taken by a segment
BoardFull == \A p \in Bounds : ~IsFree(p)

\* C5: termination under a full board.  When food_spawner's loop runs with
\* every cell of the bounds taken, it comes to an end (the claim: with a
\* BoardFull error after a bounded number of attempts).
C5_FullBoardTerminates == (pc = "SpawnLoop" /\ BoardFull) ~> (pc # "SpawnLoop")

\* the step is a run of eat_food
EatStep == ~ate /\ ate'

\* the foods standing exactly on the head's cell
FoodAtHead == {f \in food : position[f] = position[HeadEntity]}

NoDuplicates(seq) == \A i, j \in 1..Len(seq) : seq[i] = seq[j] => i = j

\* C6: collision detection.  A run of eat_food sends an EatEvent iff a food is
\* present exactly on the head's cell; it then sends exactly one and queues the
\* removal of that food, which the next flush carries out; otherwise it sends
\* nothing and queues nothing.  No food entity is the cause of two events.
C6_CollisionDetection ==
    /\ [][EatStep =>
             IF FoodAtHead # {}
             THEN /\ event_count' = event_count + 1
                  /\ \E f \in FoodAtHead : /\ commands' = Append(commands, Despawn(f))
                                           /\ eatLog' = Append(eatLog, f)
             ELSE /\ event_count' = event_count
                  /\ commands' = commands
                  /\ eatLog' = eatLog]_vars
    /\ [][FlushStep =>
             \A i \in 1..Len(commands) :
                 commands[i].op = "despawn" => commands[i].ent \notin food']_vars
    /\ [](Len(eatLog) = event_count /\ NoDuplicates(eatLog) /\ Cardinality(food) <= 1)

\* eat_food has just sent the second EatEvent and the eaten food is still there
C6_Witness ==
    /\ ate
    /\ event_count = 2
    /\ \E f \in FoodAtHead : commands # <<>> /\ commands[Len(commands)] = Despawn(f)

\* C7: exactly-once reaction.  snake_growth and food_spawner each react once to
\* every EatEvent: neither has reacted more often than events were sent, an
\* event not yet reacted to is still buffered for its reader, at most one
\* event is outstanding per reader, and once both systems have run in a frame
\* only an event sent later in that same frame can be outstanding.
C7_ExactlyOnce ==
    /\ grown <= event_count
    /\ spawned <= event_count
    /\ event_count - grown <= 1
    /\ event_count - spawned <= 1
    /\ event_count - grown <= events_a + events_b
    /\ event_count - spawned <= events_a + events_b
    /\ growthReader = grown
    /\ spawnerReader = spawned + (IF pc = "SpawnLoop" THEN 1 ELSE 0)
    /\ pc \in {"UpdateFlush", "Last"} =>
           /\ event_count - grown <= events_b
           /\ event_count - spawned <= events_b

\* both systems have reacted to the second EatEvent
C7_Witness ==
    /\ event_count = 2
    /\ grown = 2
    /\ spawned = 2
    /\ pc = "Last"

\* C8: chain length.  The chain starts with two segments and never has fewer;
\* its length only ever goes up, by one, when a growth is applied; it is two
\* plus the growths applied, one growth per EatEvent, and every EatEvent has
\* had its growth by the time the next tick runs.
C8_ChainLength ==
    /\ [](/\ Len(Chain) = Cardinality(snakeSegment)
          /\ Len(Chain) >= 2
          /\ Len(Chain) = 2 + grown - Len(QueuedSegments)
          /\ grown <= event_count
          /\ event_count = 0 => Len(Chain) = 2
          /\ (fixedSet /\ ~moved) => Len(Chain) = 2 + event_count)
    /\ [][/\ Len(Chain') \in {Len(Chain), Len(Chain) + 1}
          /\ Len(Chain') # Len(Chain) => (FlushStep /\ QueuedSegments # <<>>)
          /\ (MovementStep \/ EatStep) => Len(Chain') = Len(Chain)]_vars

\* the head has left the bounds after three foods were eaten and grown for
C8_Witness ==
    /\ HeadY > SpawnMax
    /\ event_count = 3
    /\ Len(Chain) = 5

\* C9: designated tail.  Exactly one entity carries LastSnakeSegment; it is a
\* segment and not the head.  The designation moves only when a growth is
\* applied, and then from the previous tail, which stays in the chain, to the
\* segment that growth appends.
C9_DesignatedTail ==
    /\ [](/\ Cardinality(DOMAIN lastSnakeSegment) = 1
          /\ Cardinality(DOMAIN snakeHead) = 1
          /\ LastEntity \in snakeSegment
          /\ LastEntity \notin DOMAIN snakeHead
          /\ LastEntity = ChainEntities[Len(ChainEntities)])
    /\ [][/\ LastEntity' # LastEntity =>
                /\ FlushStep
                /\ Len(QueuedSegments) = 1
                /\ LastEntity' = QueuedSegments[1].ent
                /\ LastEntity' \notin snakeSegment
                /\ LastEntity \in snakeSegment'
                /\ ChainEntities' = Append(ChainEntities, LastEntity')
          /\ (FlushStep /\ QueuedSegments # <<>>) => LastEntity' # LastEntity
          /\ MovementStep => LastEntity' = LastEntity]_vars

\* the designation has moved twice and the current tail has moved since
C9_Witness ==
    /\ grown = 2
    /\ QueuedSegments = <<>>
    /\ LastEntity \notin {1, 2}
    /\ Len(segmentTable) = 2
    /\ segmentTable[1] = 2
    /\ lastSnakeSegment[LastEntity] # None

\* the first tick has run and both reactions to its EatEvent are applied
FirstTickDone ==
    /\ HeadY = 1
    /\ event_count = 1
    /\ grown = 1
    /\ spawned = 1
    /\ commands = <<>>

\* C10: end-to-end scenario.  From head (0,0,0), tail (0,-1,0), direction Up and
\* food (0,1,0), once the first tick and its reactions are done the chain is
\* (0,1,0), (0,0,0), (0,-1,0) with (0,-1,0) the designated tail, and the new
\* food stands on none of these three cells.
C10_EndToEnd ==
    FirstTickDone =>
        /\ Chain = <<IVec3(0, 1, 0), IVec3(0, 0, 0), IVec3(0, -1, 0)>>
        /\ position[LastEntity] = IVec3(0, -1, 0)
        /\ food # {}
        /\ \A f \in food :
              position[f] \notin {IVec3(0, 1, 0), IVec3(0, 0, 0), IVec3(0, -1, 0)}

\* the food spawns queued by food_spawner and not yet applied
QueuedFood == SelectSeq(commands, LAMBDA c : c.op = "spawn_food")

UnitVectors == {v \in Vectors : v[1] * v[1] + v[2] * v[2] + v[3] * v[3] = 1}

\* C12: the direction mapping is a bijection.  IVec3::from sends the six
\* variants of Direction to six distinct unit vectors and Direction::from sends
\* each of them back to the variant it came from; Direction::from accepts every
\* unit vector and IVec3::from sends its result back to the same vector; no
\* other vector has a Direction.
C12_DirectionBijection ==
    /\ Cardinality(UnitVectors) = Cardinality(Direction)
    /\ (convIn.type = "Direction" /\ convOut # NoValue) =>
           /\ convOut.type = "IVec3"
           /\ convOut.vec \in UnitVectors
           /\ \A d \in Direction : DirectionToIVec3(d) = convOut.vec => d = convIn.dir
           /\ convBack # NoValue => convBack = convIn
    /\ (convIn.type = "IVec3" /\ convIn.vec \in UnitVectors /\ convOut # NoValue) =>
           /\ convOut.type = "Direction"
           /\ convOut.dir \in Direction
           /\ convBack # NoValue => convBack = convIn
    /\ (convIn.type = "IVec3" /\ convIn.vec \notin UnitVectors /\ convOut # NoValue) =>
           convOut = Panicked

\* a Direction has gone to its vector and back
C12_Witness ==
    /\ convIn = DirectionValue("Up")
    /\ convOut = IVec3Value(IVec3(0, 1, 0))
    /\ convBack = convIn

\* snake_growth runs while an EatEvent it has not read is waiting and the
\* designated tail holds no pending last position
GrowthWithoutPending ==
    /\ pc = "Growth" /\ pc' # "Growth"
    /\ ReaderNext(growthReader).got
    /\ Single(DOMAIN lastSnakeSegment)
    /\ lastSnakeSegment[LastEntity] = None

\* C13: growth out of protocol order is an error.  When snake_growth runs for
\* an EatEvent while the designated tail holds no pending last position, it
\* ends in the failure GrowthWithoutPendingPosition instead of going on to the
\* next system as if nothing had happened, and the chain is left unchanged.
C13_GrowthWithoutPendingIsError ==
    [][GrowthWithoutPending =>
          /\ pc' = "GrowthWithoutPendingPosition"
          /\ Chain' = Chain
          /\ commands' = commands]_vars

\* the latest EatEvent has had both its reactions applied and the segment
\* appended for it is still where snake_growth put it
LatestReactionsApplied ==
    /\ grown >= 1
    /\ grown = spawned
    /\ QueuedSegments = <<>>
    /\ QueuedFood = <<>>
    /\ lastSnakeSegment[LastEntity] = None

\* C14: growth before respawn.  For each EatEvent food_spawner excludes the
\* chain as it is after that event's growth, so once both reactions to the
\* event are applied the new food is not on the segment appended for it.
C14_GrowthBeforeRespawn ==
    LatestReactionsApplied => \A f \in food : position[f] # position[LastEntity]

\* the cell one step ahead of the head
CellAhead == Add(position[HeadEntity], DirectionToIVec3(snakeHead[HeadEntity]))

\* C15: move before collision check.  In a tick snake_movement runs before
\* eat_food, and eat_food compares the food with the head's position after that
\* movement: the food on the head's cell after the movement step is the food
\* that was one cell ahead before it, never one on the cell the head left;
\* nothing moves the head or the food between the two systems; and eat_food
\* then sends an EatEvent iff a food is on the head's cell.
C15_MoveBeforeCheck ==
    /\ [][MovementStep =>
             /\ ~ate /\ ~ate'
             /\ \A f \in food : f \in FoodAtHead' <=> position[f] = CellAhead
             /\ \A f \in FoodAtHead : f \notin FoodAtHead']_vars
    /\ [][(moved /\ ~ate /\ ~EatStep) =>
             /\ moved' /\ fixedSet'
             /\ food' = food
             /\ \A e \in food \cup {HeadEntity} : position'[e] = position[e]]_vars
    /\ [][EatStep =>
             /\ moved
             /\ event_count' = event_count + 1 <=> FoodAtHead # {}
             /\ event_count' = event_count \/ event_count' = event_count + 1]_vars

\* the third tick's movement has brought the head onto the food and eat_food
\* has not run yet
C15_Witness ==
    /\ moved /\ ~ate
    /\ event_count = 2
    /\ FoodAtHead # {}

\* C16: pending last position.  Every movement step stores the position the
\* designated tail had before the shift in the tail's pending slot, whatever
\* the slot held; no other step writes the slot of a tail; and a segment that
\* growth appends becomes the designated tail with an empty slot, which stays
\* empty until the next movement step.
C16_PendingLastPosition ==
    /\ [][MovementStep =>
             /\ LastEntity' = LastEntity
             /\ lastSnakeSegment'[LastEntity] = Chain[Len(Chain)]
             /\ lastSnakeSegment'[LastEntity] # None]_vars
    /\ [][(FlushStep /\ QueuedSegments # <<>>) =>
             /\ LastEntity' = QueuedSegments[1].ent
             /\ lastSnakeSegment'[LastEntity'] = None]_vars
    /\ [][(~MovementStep /\ LastEntity' = LastEntity) =>
             lastSnakeSegment'[LastEntity] = lastSnakeSegment[LastEntity]]_vars

\* a movement step has overwritten an earlier pending position of the same
\* tail: two ticks after the second growth
C16_Witness ==
    /\ moved
    /\ grown = 2
    /\ Len(Chain) = 4
    /\ lastSnakeSegment[LastEntity] = IVec3(0, HeadY - 4, 0)
    /\ HeadY = 7

\* C17: fixed heading.  The head starts at the origin heading Up and nothing
\* changes its direction; every movement step raises the head's y by one
\* and no other step moves the head, so after k movement steps the head is at
\* (0, k, 0), and its x and z are always 0.
C17_FixedHeading ==
    /\ position[HeadEntity] = IVec3(0, 0, 0)
    /\ [](/\ Single(DOMAIN snakeHead)
          /\ snakeHead[HeadEntity] = "Up"
          /\ position[HeadEntity][1] = 0
          /\ position[HeadEntity][3] = 0
          /\ HeadY >= 0)
    /\ [][/\ snakeHead' = snakeHead
          /\ MovementStep => position'[HeadEntity] = IVec3(0, HeadY + 1, 0)
          /\ ~MovementStep => position'[HeadEntity] = position[HeadEntity]]_vars

\* the sixth movement step has just run
C17_Witness ==
    /\ moved /\ ~ate
    /\ snakeHead[HeadEntity] = "Up"
    /\ position[HeadEntity] = IVec3(0, 6, 0)

\* every segment is one step behind the segment before it
Contiguous(chain, d) ==
    \A i \in 2..Len(chain) : Add(chain[i], DirectionToIVec3(d)) = chain[i - 1]

\* C18: chain contiguity.  In every state no two segments of the chain share a
\* cell and every segment is exactly one step behind the one before it, also
\* right after a new segment has been appended; no movement step runs while a
\* growth is queued and not yet applied, so no queued growth is applied to a
\* chain that has moved on.
C18_ChainContiguity ==
    /\ [](/\ NoDuplicates(Chain)
          /\ Contiguous(Chain, snakeHead[HeadEntity]))
    /\ [][MovementStep => QueuedSegments = <<>>]_vars
    /\ [][(FlushStep /\ QueuedSegments # <<>>) =>
             /\ Len(Chain') = Len(Chain) + 1
             /\ Contiguous(Chain', snakeHead[HeadEntity])]_vars

\* the fourth growth has just been applied: six segments, the new tail not
\* moved yet
C18_Witness ==
    /\ grown = 4
    /\ Len(Chain) = 6
    /\ lastSnakeSegment[LastEntity] = None
    /\ Chain[6] = IVec3(0, HeadY - 5, 0)

\* C19: respawn termination in the shipped configuration.  The chain never has
\* more than 7 segments, so whenever food_spawner is in its loop at least one
\* of the 11 cells of the range is free of the snake and, the draws being
\* fair, the loop ends; once the head is above y = 5 no EatEvent is sent.
C19_RespawnTerminates ==
    /\ [](Len(Chain) <= 7 /\ 7 < SpawnCells)
    /\ [](pc = "SpawnLoop" => ~BoardFull)
    /\ [][HeadY > SpawnMax => event_count' = event_count]_vars
    /\ (pc = "SpawnLoop") ~> (pc # "SpawnLoop")

\* food_spawner is in its loop for the fifth EatEvent, sent with the head at
\* y = 5, and has rejected a draw
C19_Witness ==
    /\ pc = "SpawnLoop"
    /\ event_count = 5
    /\ HeadY = SpawnMax
    /\ candidate # None
    /\ ~IsFree(candidate)

====
